---- MODULE Spec2Model ----
(***************************************************************************)
(* A model of pysheng/download.py: the identifier resolver                 *)
(* (get_id_from_string), the metadata extractor (get_info), the page       *)
(* resolver (get_image_url_from_page and the width rewrite) and the        *)
(* generator download_book that drives them.                               *)
(*                                                                         *)
(* Text is a sequence of one-character strings.  A Python value that may   *)
(* be None is a sequence of length at most one: <<>> is None, <<v>> is v.  *)
(***************************************************************************)
EXTENDS Integers, Sequences, FiniteSets, TLC

VARIABLES
    url,          \* download_book(url, ...) / get_id_from_string(s)
    page_start,   \* download_book argument
    page_end,     \* download_book argument, <<>> for None
    pc,           \* position of the running function
    err,          \* the exception that ended the run, "" when none
    book_id,      \* result of get_id_from_string, <<>> until computed
    cover_html,   \* the cover page handed to get_info, <<>> until fetched
    info,         \* result of get_info, <<>> until computed
    openers,      \* cookie jars of the openers created so far, in order
    opener,       \* the opener variable in scope (index into openers), 0 = unset
    it,           \* itertools.islice iterator: the page ids still to come
    page0,        \* enumerate() counter
    page,         \* page0 + page_start of the page being resolved
    page_id,      \* the page id being resolved
    image_url0,   \* URL extracted from the page, <<>> for None
    image_url,    \* URL after the width rewrite
    yielded,      \* the tuples download_book has yielded so far
    log           \* the requests and responses of lib.download, in order

vars == << url, page_start, page_end, pc, err, book_id, cover_html, info,
           openers, opener, it, page0, page, page_id, image_url0, image_url,
           yielded, log >>

----------------------------------------------------------------------------
(* Bounds of the model *)

MaxIdLen == 3         \* characters of a bare identifier
MaxParams == 2        \* query parameters of an input URL
MaxEntries == 3       \* page entries of a cover page handed to get_info
MaxPages == 4         \* pages of a book that download_book walks

----------------------------------------------------------------------------
(* Text helpers *)

RECURSIVE Flatten(_)
Flatten(ss) == IF ss = <<>> THEN <<>> ELSE Head(ss) \o Flatten(Tail(ss))

SeqsUpTo(S, n) == UNION { [1..k -> S] : k \in 0..n }

Min(a, b) == IF a < b THEN a ELSE b

\* x occurs in s at position p (1-based)
OccursAt(x, s, p) ==
    /\ p >= 1
    /\ p + Len(x) - 1 <= Len(s)
    /\ \A i \in 1..Len(x) : s[p + i - 1] = x[i]

Range(s) == { s[i] : i \in 1..Len(s) }

Contains(x, s) == \E p \in 1..Len(s) : OccursAt(x, s, p)

\* the longest run of characters outside stop that starts at p
RECURSIVE RunEnd(_, _, _)
RunEnd(s, p, stop) ==
    IF p <= Len(s) /\ s[p] \notin stop THEN RunEnd(s, p + 1, stop) ELSE p

Run(s, p, stop) == SubSeq(s, p, RunEnd(s, p, stop) - 1)

----------------------------------------------------------------------------
(* get_id_from_string *)

Ok(v) == [kind |-> "ok", value |-> v]
Raise(exc, msg) == [kind |-> "raise", exc |-> exc, msg |-> msg]

IdEq == << "i", "d", "=" >>

\* re.search("[?&]?id=([^&]+)", url) tried at position p: where group 1
\* starts if the prefix [?&]?id= matches there, 0 if it does not
IdGroupStart(s, p) ==
    IF s[p] \in {"?", "&"}
    THEN IF OccursAt(IdEq, s, p + 1) THEN p + 4 ELSE 0
    ELSE IF OccursAt(IdEq, s, p) THEN p + 3 ELSE 0

IdMatchesAt(s, p) ==
    LET g == IdGroupStart(s, p)
    IN  g # 0 /\ g <= Len(s) /\ s[g] # "&"

\* the leftmost match, as re.search finds it: <<>> when there is none,
\* else << group(1) >>
SearchId(s) ==
    LET ps == { p \in 1..Len(s) : IdMatchesAt(s, p) }
    IN  IF ps = {} THEN <<>>
        ELSE LET p == CHOOSE q \in ps : \A r \in ps : q <= r
             IN  << Run(s, IdGroupStart(s, p), {"&"}) >>

get_id_from_string(s) ==
    IF ~Contains(<< "/" >>, s) THEN Ok(s)
    ELSE LET match == SearchId(s)
         IN  IF match = <<>>
             THEN Raise("ParsingError", "Error extracting id query string from URL")
             ELSE Ok(match[1])

\* p1&p2&...&pn
RECURSIVE JoinAmp(_)
JoinAmp(ps) ==
    IF ps = <<>> THEN <<>>
    ELSE IF Len(ps) = 1 THEN ps[1]
    ELSE ps[1] \o << "&" >> \o JoinAmp(Tail(ps))

\* The inputs tried: bare identifiers, and URLs /path?name=value&...
IdChars == { "A", "i", "d", "=" }
IdParams ==
    { n \o << "=" >> \o v :
        n \in { << "i", "d" >>, << "v", "i", "d" >>, << "h" >> },
        v \in { << "A" >>, << "B", "C" >>, <<>> } }
IdUrls ==
    { << "/", "b" >> } \cup
    { << "/", "b", "?" >> \o JoinAmp(ps) : ps \in SeqsUpTo(IdParams, MaxParams) \ {<<>>} }
IdInputs == SeqsUpTo(IdChars, MaxIdLen) \cup IdUrls

----------------------------------------------------------------------------
(* A run of get_id_from_string alone *)

Idle ==
    /\ page_start = 0 /\ page_end = <<>>
    /\ err = "" /\ book_id = <<>> /\ cover_html = <<>> /\ info = <<>>
    /\ openers = <<>> /\ opener = 0 /\ it = <<>> /\ page0 = 0 /\ page = 0
    /\ page_id = ""
    /\ image_url0 = <<>> /\ image_url = <<>> /\ yielded = <<>> /\ log = <<>>

InitId ==
    /\ Idle
    /\ url \in IdInputs
    /\ pc = "get_id"

ResolveId ==
    /\ pc = "get_id"
    /\ LET r == get_id_from_string(url)
       IN  IF r.kind = "ok"
           THEN /\ book_id' = << r.value >>
                /\ err' = ""
                /\ pc' = "id_returned"
           ELSE /\ book_id' = <<>>
                /\ err' = r.exc
                /\ pc' = "raised"
    /\ UNCHANGED << url, page_start, page_end, cover_html, info, openers,
                    opener, it, page0, page, page_id, image_url0, image_url,
                    yielded, log >>

NextId == ResolveId

SpecId == InitId /\ [][NextId]_vars

\* the values of the query parameters named id: a parameter is introduced
\* by ? or & and its value runs to the next & or the end of the text (an
\* id parameter with an empty value is read as no parameter)
IdParamValues(s) ==
    { Run(s, p + 4, {"&"}) :
        p \in { q \in 1..Len(s) : s[q] \in {"?", "&"} /\ OccursAt(IdEq, s, q + 1) } }
    \ { <<>> }

\* C9: an input without a path separator is returned unchanged; an input
\* with one returns the value of its query parameter named id and of no
\* other parameter, and raises ParsingError when it has no such parameter.
C9_IdIsTheIdParameter ==
    pc \in {"id_returned", "raised"} =>
        IF ~Contains(<< "/" >>, url)
        THEN pc = "id_returned" /\ book_id = << url >>
        ELSE IF IdParamValues(url) = {}
             THEN pc = "raised" /\ err = "ParsingError"
             ELSE pc = "id_returned" /\ book_id[1] \in IdParamValues(url)

----------------------------------------------------------------------------
(* get_info *)

(* The cover page is held by what the regular expressions and json.loads  *)
(* of get_info find in it:                                                *)
(*   ie          "none": no input tag named ie; "novalue": a tag without  *)
(*               a value attribute; else the value attribute              *)
(*   has_oc_run  _OC_Run(...); occurs                                     *)
(*   json_ok     its argument text is well-formed JSON                    *)
(*   args        the list json.loads returns for "[" + text + "]"         *)
(* A JSON object is a record with the set of its keys in field keys.      *)

KnownEncodings == { "utf-8", "iso8859-15" }

\* str.lower() on the encoding names tried
Lower(v) == IF v = "UTF-8" THEN "utf-8" ELSE v

\* json.loads(text, encoding=encoding) of a byte string
JsonLoads(html, encoding) ==
    IF encoding # "utf-8" /\ encoding \notin KnownEncodings
    THEN Raise("LookupError", "unknown encoding")
    ELSE IF ~html.json_ok
    THEN Raise("ValueError", "No JSON object could be decoded")
    ELSE Ok(html.args)

\* entry e inserted into the sorted list s after every entry whose order
\* is not greater (sorted() is stable)
RECURSIVE InsertByOrder(_, _)
InsertByOrder(e, s) ==
    IF s = <<>> THEN << e >>
    ELSE IF e.order < Head(s).order THEN << e >> \o s
    ELSE << Head(s) >> \o InsertByOrder(e, Tail(s))

RECURSIVE SortByOrderFrom(_, _)
SortByOrderFrom(s, acc) ==
    IF s = <<>> THEN acc
    ELSE SortByOrderFrom(Tail(s), InsertByOrder(Head(s), acc))

\* the entries in the order they arrived, unsorted
ArrivalOrder(entries) == entries

\* sorted(pages_info["page"], key=lambda d: d["order"])
SortedByOrder(entries) == SortByOrderFrom(entries, <<>>)

PageIdsOf(entries) == [ i \in 1..Len(entries) |-> SortedByOrder(entries)[i].pid ]

\* str.decode("raw_unicode_escape"): an escape & is one character here
DecodeRawUnicodeEscape(s) ==
    [ i \in 1..Len(s) |-> IF s[i] = "\\u0026" THEN "&" ELSE s[i] ]

\* HTMLParser.unescape: an entity &amp; is one character here
get_unescape_entities(s) ==
    [ i \in 1..Len(s) |-> IF s[i] = "&amp;" THEN "&" ELSE s[i] ]

\* re.sub("^By\s+", "", s)
StripBy(s) ==
    IF OccursAt(<< "B", "y" >>, s, 1) /\ RunEnd(s, 3, { c \in Range(s) : c # " " }) > 3
    THEN SubSeq(s, RunEnd(s, 3, { c \in Range(s) : c # " " }), Len(s))
    ELSE s

BookKeys ==
    << "max_resolution_image_width", "max_resolution_image_height",
       "title", "attribution" >>

get_info(html) ==
    IF html.ie = "novalue" THEN Raise("ParsingError", "Cannot find encoding info")
    ELSE
    LET encoding == IF html.ie # "none" THEN Lower(html.ie) ELSE "iso8859-15"
    IN
    IF ~html.has_oc_run
    THEN Raise("ParsingError", "No JS function OC_Run() found in HTML")
    ELSE
    LET loaded == JsonLoads(html, encoding)
    IN
    IF loaded.kind # "ok" THEN loaded
    ELSE
    LET oc_run_args == loaded.value
    IN
    IF Len(oc_run_args) < 2
    THEN Raise("ParsingError", "Expecting at least 2 arguments in function: OC_Run()")
    ELSE
    LET pages_info == oc_run_args[1]
        book_info == oc_run_args[2]
    IN
    IF "page" \notin pages_info.keys
    THEN Raise("ParsingError", "Cannot find page info")
    ELSE
    LET page_ids == PageIdsOf(pages_info.page)
    IN
    IF page_ids = <<>> THEN Raise("ParsingError", "No page_ids found")
    ELSE IF "prefix" \notin pages_info.keys THEN Raise("KeyError", "prefix")
    ELSE IF \E i \in 1..Len(BookKeys) : BookKeys[i] \notin book_info.keys
    THEN Raise("KeyError",
               BookKeys[CHOOSE i \in 1..Len(BookKeys) :
                           /\ BookKeys[i] \notin book_info.keys
                           /\ \A j \in 1..(i - 1) : BookKeys[j] \in book_info.keys])
    ELSE Ok([ prefix |-> DecodeRawUnicodeEscape(pages_info.prefix),
              page_ids |-> page_ids,
              title |-> get_unescape_entities(book_info.title),
              attribution |-> get_unescape_entities(StripBy(book_info.attribution)),
              max_resolution |-> << book_info.max_resolution_image_width,
                                    book_info.max_resolution_image_height >> ])

----------------------------------------------------------------------------
(* A run of get_info alone *)

Pids == { "p0", "p1", "p2" }
Orders == 0..2
PageEntries == [ order : Orders, pid : Pids ]

GoodPrefix == << "h", "?", "i", "d", "=", "A", "\\u0026", "x" >>
GoodTitle == << "T", "&amp;", "U" >>
GoodAttribution == << "B", "y", " ", "X" >>
GoodResolution == << 20, 30 >>

PagesInfo(keys, entries) ==
    [ keys |-> keys, page |-> entries, prefix |-> GoodPrefix ]

BookInfo(keys) ==
    [ keys |-> keys, title |-> GoodTitle, attribution |-> GoodAttribution,
      max_resolution_image_width |-> GoodResolution[1],
      max_resolution_image_height |-> GoodResolution[2] ]

AllBookKeys == Range(BookKeys)

Cover(ie, has_oc_run, json_ok, nargs, keys1, entries, keys2) ==
    [ ie |-> ie, has_oc_run |-> has_oc_run, json_ok |-> json_ok,
      args |-> SubSeq(<< PagesInfo(keys1, entries), BookInfo(keys2), 0 >>, 1, nargs) ]

WellFormedCover(entries) ==
    Cover("none", TRUE, TRUE, 2, {"page", "prefix"}, entries, AllBookKeys)

\* every page list in a well-formed cover page, and every way the rest of
\* the page can be malformed around a fixed page list
CoverInputs ==
    { WellFormedCover(es) : es \in SeqsUpTo(PageEntries, MaxEntries) }
    \cup
    { Cover(ie, oc, js, n, k1, es, k2) :
        ie \in { "none", "novalue", "UTF-8", "bogus" },
        oc \in BOOLEAN, js \in BOOLEAN, n \in 0..3,
        k1 \in SUBSET {"page", "prefix"},
        es \in { <<>>, << [order |-> 1, pid |-> "p1"], [order |-> 0, pid |-> "p0"] >> },
        k2 \in { AllBookKeys } \cup { AllBookKeys \ {k} : k \in AllBookKeys } }

InitInfo ==
    /\ url = <<>> /\ page_start = 0 /\ page_end = <<>>
    /\ err = "" /\ book_id = <<>> /\ info = <<>>
    /\ openers = <<>> /\ opener = 0 /\ it = <<>> /\ page0 = 0 /\ page = 0
    /\ page_id = ""
    /\ image_url0 = <<>> /\ image_url = <<>> /\ yielded = <<>> /\ log = <<>>
    /\ \E c \in CoverInputs : cover_html = << c >>
    /\ pc = "get_info"

ExtractInfo ==
    /\ pc = "get_info"
    /\ LET r == get_info(cover_html[1])
       IN  IF r.kind = "ok"
           THEN /\ info' = << r.value >>
                /\ err' = ""
                /\ pc' = "info_returned"
           ELSE /\ info' = <<>>
                /\ err' = r.exc
                /\ pc' = "raised"
    /\ UNCHANGED << url, page_start, page_end, book_id, cover_html, openers,
                    opener, it, page0, page, page_id, image_url0, image_url,
                    yielded, log >>

NextInfo == ExtractInfo

SpecInfo == InitInfo /\ [][NextInfo]_vars

\* the page entries of the cover page handed to get_info
CoverEntries == cover_html[1].args[1].page

\* C6: get_info either returns complete metadata with a non-empty page_ids
\* or raises ParsingError; in particular malformed argument text, like
\* every other listed failure, ends in ParsingError and no other error.
C6_OnlyParsingError ==
    /\ pc = "raised" => err = "ParsingError"
    /\ pc = "info_returned" =>
          /\ info[1].page_ids # <<>>
          /\ DOMAIN info[1] =
                {"prefix", "page_ids", "title", "attribution", "max_resolution"}
    /\ (pc \in {"raised", "info_returned"} /\ cover_html[1].has_oc_run
            /\ cover_html[1].ie # "novalue" /\ ~cover_html[1].json_ok)
          => (pc = "raised" /\ err = "ParsingError")

IsPermutation(f, n) == \A j \in 1..n : \E i \in 1..n : f[i] = j

\* C8: on success page_ids holds one pid per page entry, the entries taken
\* in ascending order of their order field whatever order they arrived in.
C8_PageIdsSortedByOrder ==
    pc = "info_returned" =>
        LET es == CoverEntries
            n == Len(es)
        IN  /\ Len(info[1].page_ids) = n
            /\ \E f \in [1..n -> 1..n] :
                  /\ IsPermutation(f, n)
                  /\ \A i \in 1..n : info[1].page_ids[i] = es[f[i]].pid
                  /\ \A i \in 1..(n - 1) : es[f[i]].order <= es[f[i + 1]].order

\* orders [2,0,1] with pids [p2,p0,p1] came out as [p0,p1,p2]
C8_Witness ==
    /\ pc = "info_returned"
    /\ CoverEntries = << [order |-> 2, pid |-> "p2"], [order |-> 0, pid |-> "p0"],
                         [order |-> 1, pid |-> "p1"] >>
    /\ info[1].page_ids = << "p0", "p1", "p2" >>

----------------------------------------------------------------------------
(* The page resolver: get_image_url_from_page and the width rewrite *)

(* A page is held by what get_image_url_from_page looks for in it:        *)
(*   restricted   "/googlebooks/restricted_logo.gif" occurs               *)
(*   has_preload  preloadImg.src = '...' occurs                           *)
(*   src          the text between the quotes, before unescaping          *)

\* str.decode("string-escape"): an escape \x26 is one character here
DecodeStringEscape(s) ==
    [ i \in 1..Len(s) |-> IF s[i] = "\\x26" THEN "&" ELSE s[i] ]

\* get_image_url_from_page without the test for the restricted marker
IgnoreRestricted(html) ==
    IF ~html.has_preload THEN Raise("ParsingError", "No image found in HTML page")
    ELSE Ok(<< DecodeStringEscape(html.src) >>)

\* get_image_url_from_page returning None where no image is found
NoneWhenNoImage(html) ==
    IF html.restricted \/ ~html.has_preload THEN Ok(<<>>)
    ELSE Ok(<< DecodeStringEscape(html.src) >>)

\* None is <<>>, a string v is << v >>
get_image_url_from_page(html) ==
    IF html.restricted THEN Ok(<<>>)
    ELSE IF ~html.has_preload THEN Raise("ParsingError", "No image found in HTML page")
    ELSE Ok(<< DecodeStringEscape(html.src) >>)

\* "if image_url0:" is false for None and for the empty string
Truthy(v) == v # <<>> /\ v[1] # <<>>

Digits == << "0", "1", "2", "3", "4", "5", "6", "7", "8", "9" >>
IsDigit(c) == c \in Range(Digits)

\* str(n) of a natural number
RECURSIVE Str(_)
Str(n) == IF n < 10 THEN << Digits[n + 1] >> ELSE Str(n \div 10) \o << Digits[(n % 10) + 1] >>

\* re.sub("w=(\d+)", repl, s) from position p on: every occurrence of w=
\* followed by digits is replaced, wherever it stands
RECURSIVE SubWidthFrom(_, _, _)
SubWidthFrom(s, p, repl) ==
    IF p > Len(s) THEN <<>>
    ELSE IF OccursAt(<< "w", "=" >>, s, p) /\ p + 2 <= Len(s) /\ IsDigit(s[p + 2])
    THEN repl \o SubWidthFrom(s, RunEnd(s, p + 2, { c \in Range(s) : ~IsDigit(c) }), repl)
    ELSE << s[p] >> \o SubWidthFrom(s, p + 1, repl)

\* re.sub("w=(\d+)", "w=" + str(width), image_url0)
RewriteWidth(u, width) == SubWidthFrom(u, 1, << "w", "=" >> \o Str(width))

get_page_url(prefix, pid) == prefix \o << "&", "p", "g", "=" >> \o << pid >>

get_cover_url(id) ==
    << "http://books.google.com/books", "?", "i", "d", "=" >> \o id
        \o << "&", "hl=en&printsec=frontcover&source=gbs_ge_summary_r&cad=0" >>

----------------------------------------------------------------------------
(* download_book *)

\* lib.get_cookies_opener(): a new opener with an empty cookie jar
get_cookies_opener(os) == Append(os, {})

\* itertools.islice(seq, start, stop) raises ValueError for a negative index
ISliceRaises(start, stop) == start < 0 \/ (stop # <<>> /\ stop[1] < 0)

\* islice that ignores stop
ISliceNoStop(seq, start, stop) == SubSeq(seq, start + 1, Len(seq))

\* the items islice(seq, start, stop) yields
ISlice(seq, start, stop) ==
    SubSeq(seq, start + 1, IF stop = <<>> THEN Len(seq) ELSE Min(stop[1], Len(seq)))

\* the index within the slice, page_start forgotten
PageIndexNoOffset(p0, start) == p0

\* page = page0 + page_start
PageIndex(p0, start) == p0 + start

\* the loop going on without waiting for the image
NoWaitForImage(fetch_image) == "loop"

\* where download_book stands after get_image_url_from_page: in the image
\* download when the URL is truthy, else back at the head of the loop
AfterPageHtml(fetch_image) == IF fetch_image THEN "image_wait" ELSE "loop"

\* lib.download(u, opener=o) sends a request with the opener's cookies and
\* blocks until the response is received
Request(kind, u, o, p) ==
    [ ev |-> "request", kind |-> kind, url |-> u, opener |-> o,
      cookies |-> openers[o], page |-> p ]

RequestWith(os, kind, u, o, p) ==
    [ ev |-> "request", kind |-> kind, url |-> u, opener |-> o,
      cookies |-> os[o], page |-> p ]

\* (the body of the cover page is kept in cover_html, not in the log)
Response(kind, u, o, p, body) ==
    [ ev |-> "response", kind |-> kind, url |-> u, opener |-> o, page |-> p,
      body |-> body ]

\* what the server sends for an image URL
ImageData(u) == << "png" >> \o u

\* the pages the server may send for page id pid
ImgSrc(pid) == << "h", "?", "w", "=", "1", "\\x26", "p", "=", pid >>
PageHtmlsFor(pid) ==
    { [ restricted |-> TRUE, has_preload |-> FALSE, src |-> <<>> ],
      [ restricted |-> TRUE, has_preload |-> TRUE, src |-> ImgSrc(pid) ],
      [ restricted |-> FALSE, has_preload |-> FALSE, src |-> <<>> ],
      [ restricted |-> FALSE, has_preload |-> TRUE, src |-> ImgSrc(pid) ],
      [ restricted |-> FALSE, has_preload |-> TRUE, src |-> <<>> ] }

PidNames == << "p0", "p1", "p2", "p3", "p4", "p5" >>

\* a well-formed cover page of n pages whose entries arrive last page first
BookCover(n) ==
    WellFormedCover([ i \in 1..n |-> [ order |-> n - i, pid |-> PidNames[n - i + 1] ] ])

BookCovers ==
    { BookCover(n) : n \in 1..MaxPages }
    \cup { Cover("none", FALSE, TRUE, 0, {}, <<>>, {}) }

BookUrls ==
    { << "A" >>, << "/", "b", "?", "i", "d", "=", "A" >>, << "/", "b" >> }

Init ==
    /\ url \in BookUrls
    /\ page_start \in (-1)..(MaxPages + 1)
    /\ page_end \in { <<>> } \cup { << e >> : e \in (-1)..(MaxPages + 1) }
    /\ pc = "start"
    /\ err = "" /\ book_id = <<>> /\ cover_html = <<>> /\ info = <<>>
    /\ openers = <<>> /\ opener = 0 /\ it = <<>> /\ page0 = 0 /\ page = 0
    /\ page_id = ""
    /\ image_url0 = <<>> /\ image_url = <<>> /\ yielded = <<>> /\ log = <<>>

\* info = get_info_from_url(url), up to the request for the cover page
GetInfoFromUrl ==
    /\ pc = "start"
    /\ openers' = get_cookies_opener(openers)
    /\ opener' = Len(openers')
    /\ LET r == get_id_from_string(url)
       IN  IF r.kind = "ok"
           THEN /\ book_id' = << r.value >>
                /\ log' = Append(log, RequestWith(openers', "cover",
                                     get_cover_url(r.value), opener', -1))
                /\ err' = ""
                /\ pc' = "cover_wait"
           ELSE /\ book_id' = <<>>
                /\ log' = log
                /\ err' = r.exc
                /\ pc' = "raised"
    /\ UNCHANGED << url, page_start, page_end, cover_html, info, it, page0,
                    page, page_id, image_url0, image_url, yielded >>

\* the cover page arrives (the server sets a session cookie with it);
\* get_info; the opener and the islice of download_book
CoverResponse ==
    /\ pc = "cover_wait"
    /\ \E c \in BookCovers :
        LET r == get_info(c)
            jars == [ openers EXCEPT ![opener] = @ \cup {"sid"} ]
        IN  /\ cover_html' = << c >>
            /\ log' = Append(log, Response("cover", get_cover_url(book_id[1]),
                                           opener, -1, << "cover_html" >>))
            /\ IF r.kind # "ok"
               THEN /\ err' = r.exc
                    /\ pc' = "raised"
                    /\ openers' = jars
                    /\ UNCHANGED << info, opener, it >>
               ELSE /\ info' = << r.value >>
                    /\ openers' = get_cookies_opener(jars)
                    /\ opener' = Len(openers')
                    /\ IF ISliceRaises(page_start, page_end)
                       THEN /\ err' = "ValueError"
                            /\ pc' = "raised"
                            /\ it' = it
                       ELSE /\ err' = ""
                            /\ pc' = "loop"
                            /\ it' = ISlice(r.value.page_ids, page_start, page_end)
    /\ page0' = 0
    /\ UNCHANGED << url, page_start, page_end, book_id, page, page_id,
                    image_url0, image_url, yielded >>

\* for page0, page_id in enumerate(page_ids): the next page id, if any, and
\* the request for its page
NextPage ==
    /\ pc = "loop"
    /\ IF it = <<>>
       THEN /\ pc' = "done"
            /\ UNCHANGED << it, page0, page, page_id, log >>
       ELSE /\ page_id' = Head(it)
            /\ it' = Tail(it)
            /\ page' = PageIndex(page0, page_start)
            /\ page0' = page0 + 1
            /\ log' = Append(log, Request("page",
                                 get_page_url(info[1].prefix, page_id'), opener, page'))
            /\ pc' = "page_wait"
    /\ UNCHANGED << url, page_start, page_end, err, book_id, cover_html, info,
                    openers, opener, image_url0, image_url, yielded >>

\* the page arrives; get_image_url_from_page; the width rewrite and the
\* request for the image when the URL is truthy
PageResponseWith(html) ==
    /\ pc = "page_wait"
    /\ LET r == get_image_url_from_page(html)
           received == Append(log, Response("page",
                                  get_page_url(info[1].prefix, page_id), opener, page, html))
       IN  IF r.kind # "ok"
           THEN /\ err' = r.exc
                /\ pc' = "raised"
                /\ log' = received
                /\ UNCHANGED << image_url0, image_url >>
           ELSE /\ image_url0' = r.value
                /\ err' = ""
                /\ pc' = AfterPageHtml(Truthy(r.value))
                /\ IF Truthy(r.value)
                   THEN /\ image_url' = RewriteWidth(r.value[1], info[1].max_resolution[1])
                        /\ log' = Append(received, Request("image", image_url', opener, page))
                   ELSE /\ image_url' = image_url
                        /\ log' = received
    /\ UNCHANGED << url, page_start, page_end, book_id, cover_html, info,
                    openers, opener, it, page0, page, page_id, yielded >>

PageResponse == \E html \in PageHtmlsFor(page_id) : PageResponseWith(html)

\* the image arrives; yield info, page, image_data
ImageResponse ==
    /\ pc = "image_wait"
    /\ log' = Append(log, Response("image", image_url, opener, page, ImageData(image_url)))
    /\ yielded' = Append(yielded, [ info |-> info[1], page |-> page,
                                    image_data |-> ImageData(image_url) ])
    /\ pc' = "loop"
    /\ UNCHANGED << url, page_start, page_end, err, book_id, cover_html, info,
                    openers, opener, it, page0, page, page_id, image_url0,
                    image_url >>

Next ==
    \/ GetInfoFromUrl
    \/ CoverResponse
    \/ NextPage
    \/ PageResponse
    \/ ImageResponse

Spec == Init /\ [][Next]_vars

----------------------------------------------------------------------------
(* Properties of download_book *)

\* i lies in the half-open range [page_start, page_end), None being no end
InRange(i) == page_start <= i /\ (page_end = <<>> \/ i < page_end[1])

\* the 0-based indices of the page ids of the book that lie in the range
RangeIndices ==
    IF info = <<>> THEN {}
    ELSE { i \in 0..(Len(info[1].page_ids) - 1) : InRange(i) }

Events(ev, kind) == { k \in 1..Len(log) : log[k].ev = ev /\ log[k].kind = kind }

\* the page responses received for the page id at index i
PageResponsesOf(i) ==
    { k \in Events("response", "page") :
        log[k].url = get_page_url(info[1].prefix, info[1].page_ids[i + 1]) }

IsRestricted(html) == html.restricted
HasImage(html) == ~html.restricted /\ html.has_preload /\ html.src # <<>>
IsMalformed(html) == ~html.restricted /\ ~html.has_preload

C2_TaggedWithPageIndexInOrder ==
    \A n \in 1..Len(yielded) :
        LET y == yielded[n]
        IN  /\ y.page \in RangeIndices
            /\ y.image_data[Len(y.image_data)] = info[1].page_ids[y.page + 1]
            /\ n > 1 => yielded[n - 1].page < y.page

\* page_start = 1, page_end = 3 over four pages gave indices 1, 2
C2_Witness ==
    /\ pc = "done"
    /\ Len(info[1].page_ids) = 4
    /\ page_start = 1 /\ page_end = << 3 >>
    /\ Len(yielded) = 2
    /\ yielded[1].page = 1 /\ yielded[2].page = 2

\* C3: a restricted page raises nothing and no image is requested for it;
\* the run goes on with the next page, so a run that ends without an error
\* has fetched every page of the range.
C3_RestrictedPageIsSkipped ==
    /\ \A k \in Events("response", "page") :
          IsRestricted(log[k].body) =>
             /\ \A j \in Events("request", "image") : log[j].page # log[k].page
             /\ IF k = Len(log)
                THEN pc \in {"loop", "done"} /\ err = ""
                ELSE log[k + 1].ev = "request" /\ log[k + 1].kind = "page"
    /\ pc = "done" => \A i \in RangeIndices : PageResponsesOf(i) # {}

\* after a restricted page the next page was fetched and its image yielded
C3_Witness ==
    /\ pc = "done"
    /\ \E k \in Events("response", "page") :
          /\ IsRestricted(log[k].body) /\ log[k].body.has_preload
          /\ k < Len(log)
          /\ \E n \in 1..Len(yielded) : yielded[n].page > log[k].page

\* C4: one cookie context serves the cover fetch, every page fetch and
\* every image fetch, so the session cookie set with the cover page is sent
\* with every later request.
C4_OneCookieContext ==
    \A k \in 1..Len(log) :
        log[k].ev = "request" =>
            /\ log[k].opener = log[1].opener
            /\ log[k].kind # "cover" => "sid" \in log[k].cookies

\* C5: a page that is neither restricted nor holds an image ends the run
\* with ParsingError: it is the last thing fetched and nothing is yielded
\* for it.
C5_MalformedPageEndsTheRun ==
    \A k \in Events("response", "page") :
        IsMalformed(log[k].body) =>
            /\ k = Len(log)
            /\ pc = "raised" /\ err = "ParsingError"
            /\ \A n \in 1..Len(yielded) : yielded[n].page # log[k].page

\* the run ended on a malformed page with pages of the range still to come
C5_Witness ==
    /\ pc = "raised" /\ err = "ParsingError"
    /\ Len(log) > 2 /\ IsMalformed(log[Len(log)].body)
    /\ it # <<>>
    /\ yielded # <<>>

\* C7: every request is answered before the next one is sent; the cover
\* fetch comes first; the fetches of a page (its HTML, then its image) come
\* before those of every later page.
C7_FetchesInSequence ==
    /\ \A k \in 1..Len(log) :
          IF k % 2 = 1
          THEN log[k].ev = "request"
          ELSE /\ log[k].ev = "response"
               /\ log[k].kind = log[k - 1].kind
               /\ log[k].url = log[k - 1].url
    /\ \A k \in 1..Len(log) : log[k].kind = "cover" <=> k <= 2
    /\ \A j, k \in 3..Len(log) :
          j < k =>
             /\ log[j].page <= log[k].page
             /\ (log[j].page = log[k].page /\ log[j].kind = "image")
                   => log[k].kind = "image"

\* two pages were fetched with their images, one after the other
C7_Witness ==
    /\ pc = "done"
    /\ Len(yielded) >= 2
    /\ Cardinality(Events("response", "image")) >= 2

----------------------------------------------------------------------------
(* One turn of the loop of download_book over every image URL *)

WidthParams ==
    { n \o << "=" >> \o v :
        n \in { << "w" >>, << "s", "w" >>, << "x" >> },
        v \in { << "1" >>, << "1", "0", "0" >> } }

ImageUrls ==
    { << "h" >> } \cup
    { << "h", "?" >> \o JoinAmp(ps) : ps \in SeqsUpTo(WidthParams, MaxParams) \ {<<>>} }

ImagePages == { [ restricted |-> FALSE, has_preload |-> TRUE, src |-> u ] : u \in ImageUrls }

Resolutions == { GoodResolution, << 2000, 3000 >> }

\* download_book("A") of a book of one page, stopped where it waits for
\* the page
InitPage ==
    /\ url = << "A" >> /\ page_start = 0 /\ page_end = <<>>
    /\ pc = "page_wait" /\ err = ""
    /\ book_id = << url >>
    /\ cover_html = << BookCover(1) >>
    /\ \E res \in Resolutions :
          info = << [ get_info(BookCover(1)).value EXCEPT !.max_resolution = res ] >>
    /\ openers = << {"sid"}, {} >> /\ opener = 2
    /\ it = <<>> /\ page0 = 1 /\ page = 0 /\ page_id = "p0"
    /\ image_url0 = <<>> /\ image_url = <<>> /\ yielded = <<>>
    /\ log = << RequestWith(<< {} >>, "cover", get_cover_url(url), 1, -1),
                Response("cover", get_cover_url(url), 1, -1, << "cover_html" >>),
                Request("page", get_page_url(info[1].prefix, "p0"), 2, 0) >>

ImagePageResponse == \E html \in ImagePages : PageResponseWith(html)

NextImagePage ==
    \/ ImagePageResponse
    \/ ImageResponse
    \/ NextPage

SpecPage == InitPage /\ [][NextImagePage]_vars

\* u with the value of each query parameter named w (introduced by ? or &)
\* replaced by repl, from position p on
RECURSIVE SetWParamFrom(_, _, _)
SetWParamFrom(u, p, repl) ==
    IF p > Len(u) THEN <<>>
    ELSE IF u[p] \in {"?", "&"} /\ OccursAt(<< "w", "=" >>, u, p + 1)
    THEN << u[p], "w", "=" >> \o repl \o SetWParamFrom(u, RunEnd(u, p + 3, {"&"}), repl)
    ELSE << u[p] >> \o SetWParamFrom(u, p + 1, repl)

\* C10: the image URL requested is the URL extracted from the page with the
\* value of its w parameter replaced by the width of max_resolution, every
\* other parameter and the rest of the URL unchanged.
C10_OnlyWidthParameterRewritten ==
    \A k \in Events("request", "image") :
        log[k].url = SetWParamFrom(image_url0[1], 1, Str(info[1].max_resolution[1]))

====
